---- MODULE Spec2Model ----
(***************************************************************************)
(* Model of the connection-management core of the interview backend:       *)
(*   - the Socket.IO signaling room registry   (app/routers/webrtc.py)      *)
(*   - the media WebSocket ConnectionManager   (app/routers/media.py)       *)
(*   - the LLM analysis session store          (app/routers/llm_processor.py)*)
(* Python dicts keep insertion order, and the code depends on it (the first *)
(* match of a scan wins), so a dict is modelled as a sequence of            *)
(* [key, val] entries.                                                      *)
(***************************************************************************)
EXTENDS Integers, Sequences, FiniteSets, TLC

\* ------------------------------------------------------------------ bounds
MaxEntries == 3        \* most member-list entries over all signaling rooms
MaxRecords == 3        \* most analysis records over all sessions (SpecLLM)
MaxTailRecords == 12   \* most analysis records of the one session of SpecTail
MaxErrors == 1         \* most failed analyses recorded in one session

\* ------------------------------------------------------ program constants
TailLength == 10       \* get_session_insights returns [-10:] of every list

\* ------------------------------------------------------------- input sets
Sids == {"c1", "c2", "c3"}            \* Socket.IO connection ids
RoomIds == {"r1", "r2"}               \* room_id values clients send
UserIds == {"alice", "bob"}           \* logical user ids clients send
Payloads == {"P"}                     \* opaque offer/answer/candidate body
Kinds == {"offer", "answer", "ice-candidate"}
Unknown == "Unknown"                  \* default of participants.get(sid, "Unknown")
NoValue == "-"                        \* an absent string field
Sockets == {"w1", "w2", "w3"}         \* WebSocket objects of the media and LLM endpoints
SessionIds == {"s1", "s2"}            \* session_id path parameters
FrameTypes == {"video_frame", "audio_chunk", "screen_share"}
StreamTypes == {"video", "audio"}     \* stream_type of POST /stream/start

VARIABLES
    rooms,          \* webrtc.rooms: ordered dict room_id -> list of sids
    participants,   \* webrtc.participants: ordered dict sid -> user_id
    sioRooms,       \* Socket.IO server room membership: room_id -> set of sids
    conn,           \* Socket.IO connection state of every sid
    media_connections,  \* media manager.active_connections
    media_sessions,     \* media manager.media_sessions: ordered dict
    mws,                \* state and session of every media WebSocket
    llm_connections,    \* llm_manager.active_connections
    llm_sessions,       \* llm_manager.llm_sessions: ordered dict
    lws,                \* state, session and endpoint of every LLM WebSocket
    out,            \* the messages sent by the last handler, in order
    last,           \* the last handler run: its name, sid, room and user id
    resp,           \* the response of the last REST request
    tasks           \* the handler each connection has suspended at an await

sigVars == <<rooms, participants, sioRooms, conn>>
mediaVars == <<media_connections, media_sessions, mws>>
llmVars == <<llm_connections, llm_sessions, lws>>
vars == <<sigVars, mediaVars, llmVars, out, last, resp, tasks>>

\* ------------------------------------------------- Python dict and list
HasKey(d, k) == \E i \in 1..Len(d) : d[i].key = k

KeyIndex(d, k) == CHOOSE i \in 1..Len(d) : d[i].key = k

\* d[k]
Get(d, k) == d[KeyIndex(d, k)].val

\* d.get(k, default)
GetOr(d, k, default) == IF HasKey(d, k) THEN Get(d, k) ELSE default

\* d[k] = v: an existing key keeps its position, a new key goes last
Put(d, k, v) ==
    IF HasKey(d, k)
    THEN [i \in 1..Len(d) |-> IF d[i].key = k THEN [key |-> k, val |-> v] ELSE d[i]]
    ELSE Append(d, [key |-> k, val |-> v])

\* del d[k]
Del(d, k) == SelectSeq(d, LAMBDA e : e.key # k)

\* x in lst
InList(lst, x) == \E i \in 1..Len(lst) : lst[i] = x

\* lst.remove(x): removes the first occurrence only
ListRemove(lst, x) ==
    LET i == CHOOSE j \in 1..Len(lst) :
                 lst[j] = x /\ \A h \in 1..(j - 1) : lst[h] # x
    IN  SubSeq(lst, 1, i - 1) \o SubSeq(lst, i + 1, Len(lst))

\* --------------------------------------------------- Socket.IO emission
\* sio.emit(event, data, room=room_id, skip_sid=sid): one copy to every
\* connection the server holds in that room, the skipped one excepted.
EmitRoom(event, data, room, skip) ==
    [event |-> event, data |-> data, from |-> NoValue,
     to |-> sioRooms[room] \ {skip}]

\* sio.emit(event, data, room=sid): every connected sid is alone in the
\* room named by its own sid; a closed sid has no room left.
EmitSid(event, data, from, sid) ==
    [event |-> event, data |-> data, from |-> from,
     to |-> IF conn[sid] = "connected" THEN {sid} ELSE {}]

ReceivedAny(sid) == \E i \in 1..Len(out) : sid \in out[i].to

\* number of messages that the last handler delivered to a connection
ReceivedCount(c) == Cardinality({i \in 1..Len(out) : c \in out[i].to})

Event(op, sid, room, user) == [op |-> op, sid |-> sid, room |-> room, user |-> user]

\* member-list entries over all rooms
RECURSIVE Entries(_)
Entries(d) == IF d = <<>> THEN 0 ELSE Len(Head(d).val) + Entries(Tail(d))

\* a connection with no handler suspended
Idle == [pc |-> "idle"]

\* the response variable before any REST request
NoResponse == [status |-> 0, video_analyses |-> <<>>, audio_analyses |-> <<>>,
               screen_analyses |-> <<>>, total_analyses |-> 0]

\* ------------------------------------------------------------ signaling
Init ==
    /\ rooms = <<>>
    /\ participants = <<>>
    /\ sioRooms = [r \in RoomIds |-> {}]
    /\ conn = [s \in Sids |-> "new"]
    /\ media_connections = <<>>
    /\ media_sessions = <<>>
    /\ mws = [w \in Sockets |-> [st |-> "new", session |-> NoValue]]
    /\ llm_connections = <<>>
    /\ llm_sessions = <<>>
    /\ lws = [w \in Sockets |-> [st |-> "new", session |-> NoValue, endpoint |-> NoValue]]
    /\ out = <<>>
    /\ last = Event("init", NoValue, NoValue, NoValue)
    /\ resp = NoResponse
    /\ tasks = [c \in Sids \cup Sockets |-> Idle]

\* connect(sid, environ, auth): only logs
Connect(sid) ==
    /\ conn[sid] = "new"
    /\ conn' = [conn EXCEPT ![sid] = "connected"]
    /\ out' = <<>>
    /\ last' = Event("connect", sid, NoValue, NoValue)
    /\ UNCHANGED <<tasks, rooms, participants, sioRooms, mediaVars, llmVars, resp>>

\* join_room(sid, {room_id, user_id})
JoinRoom(sid, room_id, user_id) ==
    LET rooms1 == IF HasKey(rooms, room_id) THEN rooms ELSE Put(rooms, room_id, <<>>)
        members == Get(rooms1, room_id)
    IN  /\ conn[sid] = "connected"
        /\ Entries(rooms) < MaxEntries
        /\ participants' = Put(participants, sid, user_id)
        /\ out' = IF members # <<>>
                  THEN <<EmitRoom("user-joined", user_id, room_id, sid)>>
                  ELSE <<>>
        /\ rooms' = Put(rooms1, room_id, Append(members, sid))
        /\ sioRooms' = [sioRooms EXCEPT ![room_id] = @ \cup {sid}]
        /\ last' = Event("join_room", sid, room_id, user_id)
        /\ UNCHANGED <<tasks, conn, mediaVars, llmVars, resp>>

\* leave_room without its "Clean up empty rooms" step
LeaveRoomsNoCleanup(sid, room_id) ==
    IF HasKey(rooms, room_id) /\ InList(Get(rooms, room_id), sid)
    THEN Put(rooms, room_id, ListRemove(Get(rooms, room_id), sid))
    ELSE rooms

\* the rooms dict after leave_room's membership branch
LeaveRooms(sid, room_id) ==
    IF HasKey(rooms, room_id) /\ InList(Get(rooms, room_id), sid)
    THEN LET left == ListRemove(Get(rooms, room_id), sid)
         IN  IF left = <<>> THEN Del(rooms, room_id) ELSE Put(rooms, room_id, left)
    ELSE rooms

\* leave_room(sid, {room_id})
LeaveRoom(sid, room_id) ==
    LET user_id == GetOr(participants, sid, Unknown)
    IN  /\ conn[sid] = "connected"
        /\ out' = IF HasKey(rooms, room_id) /\ InList(Get(rooms, room_id), sid)
                  THEN <<EmitRoom("user-left", user_id, room_id, sid)>>
                  ELSE <<>>
        /\ rooms' = LeaveRooms(sid, room_id)
        /\ sioRooms' = [sioRooms EXCEPT ![room_id] = @ \ {sid}]
        /\ participants' = Del(participants, sid)
        /\ last' = Event("leave_room", sid, room_id, user_id)
        /\ UNCHANGED <<tasks, conn, mediaVars, llmVars, resp>>

\* the first room, in dict order, whose member list holds sid (0: none)
FirstRoomOf(sid) ==
    IF \E i \in 1..Len(rooms) : InList(rooms[i].val, sid)
    THEN CHOOSE i \in 1..Len(rooms) :
             /\ InList(rooms[i].val, sid)
             /\ \A h \in 1..(i - 1) : ~InList(rooms[h].val, sid)
    ELSE 0

\* the rooms dict after the disconnect handler
DisconnectRooms(sid) ==
    LET i == FirstRoomOf(sid)
    IN  IF i = 0 THEN rooms
        ELSE [rooms EXCEPT ![i].val = ListRemove(@, sid)]

\* disconnect(sid), then the server drops sid from every Socket.IO room
Disconnect(sid) ==
    LET i == FirstRoomOf(sid)
    IN  /\ conn[sid] = "connected"
        /\ rooms' = DisconnectRooms(sid)
        /\ out' = IF i = 0 THEN <<>>
                  ELSE <<EmitRoom("user-left", GetOr(participants, sid, Unknown),
                                  rooms[i].key, sid)>>
        /\ participants' = IF i = 0 THEN participants ELSE Del(participants, sid)
        /\ sioRooms' = [r \in RoomIds |-> sioRooms[r] \ {sid}]
        /\ conn' = [conn EXCEPT ![sid] = "closed"]
        /\ last' = Event("disconnect", sid, IF i = 0 THEN NoValue ELSE rooms[i].key,
                         GetOr(participants, sid, Unknown))
        /\ UNCHANGED <<tasks, mediaVars, llmVars, resp>>

\* the target lookup of offer / answer / ice_candidate: the first entry of
\* participants, in dict order, whose user id is the target (NoValue: none)
TargetSid(target_user_id) ==
    IF \E i \in 1..Len(participants) : participants[i].val = target_user_id
    THEN participants[CHOOSE i \in 1..Len(participants) :
             /\ participants[i].val = target_user_id
             /\ \A h \in 1..(i - 1) : participants[h].val # target_user_id].key
    ELSE NoValue

\* what offer / answer / ice_candidate emit
SignalOut(sid, kind, target_user_id, payload) ==
    LET sender_id == GetOr(participants, sid, Unknown)
        target_sid == TargetSid(target_user_id)
    IN  IF target_sid # NoValue
        THEN <<EmitSid(kind, payload, sender_id, target_sid)>>
        ELSE <<EmitSid("error", "Target user not found", NoValue, sid)>>

\* offer(sid, data), answer(sid, data), ice_candidate(sid, data)
Signal(sid, kind, target_user_id, payload) ==
    /\ conn[sid] = "connected"
    /\ out' = SignalOut(sid, kind, target_user_id, payload)
    /\ last' = Event(kind, sid, NoValue, target_user_id)
    /\ UNCHANGED <<tasks, sigVars, mediaVars, llmVars, resp>>

\* GET /rooms: the listed room ids with their participant counts
GetRooms == [i \in 1..Len(rooms) |->
                [room_id |-> rooms[i].key, participant_count |-> Len(rooms[i].val)]]

\* GET /rooms/{room_id}: 404 when the id is not a key of rooms
GetRoomInfoStatus(room_id) == IF HasKey(rooms, room_id) THEN 200 ELSE 404

\* GET /rooms/{room_id}
GetRoomInfo(room_id) ==
    /\ resp' = IF GetRoomInfoStatus(room_id) = 200
               THEN [status |-> 200, room_id |-> room_id,
                     participant_count |-> Len(Get(rooms, room_id)),
                     participants |-> [i \in 1..Len(Get(rooms, room_id)) |->
                         GetOr(participants, Get(rooms, room_id)[i], Unknown)]]
               ELSE [NoResponse EXCEPT !.status = 404]
    /\ out' = <<>>
    /\ last' = Event("get_room_info", NoValue, room_id, NoValue)
    /\ UNCHANGED <<tasks, sigVars, mediaVars, llmVars>>

\* DELETE /rooms/{room_id} without its "not in rooms" test
DeleteRoomStatusUnchecked(room_id) == 500

\* DELETE /rooms/{room_id}: 404 for an absent id; for a registered id the
\* first statement after the test reads the global name socket_manager,
\* which webrtc.py never defines: NameError, answered with a 500, before
\* anything is emitted or removed
DeleteRoomStatus(room_id) == IF HasKey(rooms, room_id) THEN 500 ELSE 404

DeleteRoom(room_id) ==
    /\ resp' = [NoResponse EXCEPT !.status = DeleteRoomStatus(room_id)]
    /\ out' = <<>>
    /\ last' = Event("delete_room", NoValue, room_id, NoValue)
    /\ UNCHANGED <<tasks, sigVars, mediaVars, llmVars>>

Next ==
    \/ \E sid \in Sids : Connect(sid)
    \/ \E sid \in Sids, room_id \in RoomIds, user_id \in UserIds :
           JoinRoom(sid, room_id, user_id)
    \/ \E sid \in Sids, room_id \in RoomIds : LeaveRoom(sid, room_id)
    \/ \E sid \in Sids : Disconnect(sid)
    \/ \E sid \in Sids, kind \in Kinds, target \in UserIds, payload \in Payloads :
           Signal(sid, kind, target, payload)

Spec == Init /\ [][Next]_vars

\* ---------------------------------------------------- media WebSockets
\* datetime.now(): a logical clock that is later than the creation time of
\* every session record there is
RECURSIVE LatestCreation(_)
LatestCreation(d) ==
    IF d = <<>> THEN 0
    ELSE LET rest == LatestCreation(Tail(d))
         IN  IF Head(d).val.created_at > rest THEN Head(d).val.created_at ELSE rest

Now == LatestCreation(media_sessions \o llm_sessions) + 1

\* media_sessions[session_id]["connections"]
MediaConns(session_id) == Get(media_sessions, session_id).connections

\* a send_text on this WebSocket succeeds
MediaSendOk(ws) == mws[ws].st = "open"

\* ConnectionManager.connect, at the top of websocket_endpoint
MediaConnect(ws, session_id) ==
    LET sessions1 == IF HasKey(media_sessions, session_id) THEN media_sessions
                     ELSE Put(media_sessions, session_id,
                              [connections |-> <<>>, created_at |-> Now,
                               stream_type |-> NoValue])
        session == Get(sessions1, session_id)
    IN  /\ mws[ws].st = "new"
        /\ mws' = [mws EXCEPT ![ws] = [st |-> "open", session |-> session_id]]
        /\ media_connections' = Append(media_connections, ws)
        /\ media_sessions' = Put(sessions1, session_id,
               [session EXCEPT !.connections = Append(@, ws)])
        /\ out' = <<>>
        /\ last' = Event("media_connect", ws, session_id, NoValue)
        /\ UNCHANGED <<tasks, sigVars, llmVars, resp>>

\* POST /stream/start
StartMediaStream(session_id, stream_type) ==
    /\ media_sessions' =
           IF HasKey(media_sessions, session_id) THEN media_sessions
           ELSE Put(media_sessions, session_id,
                    [connections |-> <<>>, created_at |-> Now,
                     stream_type |-> stream_type])
    /\ out' = <<>>
    /\ last' = Event("start_media_stream", NoValue, session_id, NoValue)
    /\ UNCHANGED <<tasks, sigVars, llmVars, media_connections, mws, resp>>

\* the peer of a WebSocket goes away: from now on a send to it raises, and
\* its own receive_text raises WebSocketDisconnect
MediaBreak(ws) ==
    /\ mws[ws].st = "open"
    /\ mws' = [mws EXCEPT ![ws].st = "broken"]
    /\ out' = <<>>
    /\ last' = Event("media_break", ws, mws[ws].session, NoValue)
    /\ UNCHANGED <<tasks, sigVars, llmVars, media_connections, media_sessions, resp>>

\* the for loop of broadcast_to_session over the live connections list:
\* Python's list iterator is an index into the list, and a failed send
\* removes the connection from the list being walked. i is the index
\* (from 1) of the next element; sent collects the successful sends.
RECURSIVE BroadcastLoop(_, _, _)
BroadcastLoop(i, conns, sent) ==
    IF i > Len(conns) THEN [connections |-> conns, sent |-> sent]
    ELSE IF MediaSendOk(conns[i])
         THEN BroadcastLoop(i + 1, conns, Append(sent, conns[i]))
         ELSE BroadcastLoop(i + 1, ListRemove(conns, conns[i]), sent)

\* ConnectionManager.broadcast_to_session
BroadcastToSession(session_id) ==
    IF HasKey(media_sessions, session_id)
    THEN BroadcastLoop(1, MediaConns(session_id), <<>>)
    ELSE [connections |-> <<>>, sent |-> <<>>]

\* websocket_endpoint receives a video_frame, audio_chunk or screen_share
\* from ws and broadcasts it to the session
MediaFrame(ws, type) ==
    LET session_id == mws[ws].session
        b == BroadcastToSession(session_id)
    IN  /\ mws[ws].st = "open"
        /\ media_sessions' =
               IF HasKey(media_sessions, session_id)
               THEN Put(media_sessions, session_id,
                        [Get(media_sessions, session_id) EXCEPT !.connections = b.connections])
               ELSE media_sessions
        /\ out' = [i \in 1..Len(b.sent) |->
                      [event |-> type, data |-> "data", from |-> NoValue, to |-> {b.sent[i]}]]
        /\ last' = Event("broadcast", ws, session_id, NoValue)
        /\ UNCHANGED <<tasks, sigVars, llmVars, media_connections, mws, resp>>

\* media_sessions after ConnectionManager.disconnect
MediaDisconnectSessions(ws, session_id) ==
    IF HasKey(media_sessions, session_id) /\ InList(MediaConns(session_id), ws)
    THEN Put(media_sessions, session_id,
             [Get(media_sessions, session_id) EXCEPT !.connections = ListRemove(@, ws)])
    ELSE media_sessions

\* ConnectionManager.disconnect, from websocket_endpoint's
\* except WebSocketDisconnect
MediaDisconnect(ws) ==
    LET session_id == mws[ws].session
    IN  /\ mws[ws].st \in {"open", "broken"}
        /\ mws' = [mws EXCEPT ![ws].st = "closed"]
        /\ media_connections' = IF InList(media_connections, ws)
                                THEN ListRemove(media_connections, ws)
                                ELSE media_connections
        /\ media_sessions' = MediaDisconnectSessions(ws, session_id)
        /\ out' = <<>>
        /\ last' = Event("media_disconnect", ws, session_id, NoValue)
        /\ UNCHANGED <<tasks, sigVars, llmVars, resp>>

NextMedia ==
    \/ \E ws \in Sockets, session_id \in SessionIds : MediaConnect(ws, session_id)
    \/ \E session_id \in SessionIds, stream_type \in StreamTypes :
           StartMediaStream(session_id, stream_type)
    \/ \E ws \in Sockets : MediaBreak(ws)
    \/ \E ws \in Sockets, type \in FrameTypes : MediaFrame(ws, type)
    \/ \E ws \in Sockets : MediaDisconnect(ws)

SpecMedia == Init /\ [][NextMedia]_vars

\* ------------------------------------------------- LLM analysis sessions
\* the analysis_type each endpoint passes to llm_manager.connect
AnalysisType(endpoint) ==
    IF endpoint = "stream" THEN "video_analysis" ELSE "screen_analysis"

Endpoints == {"stream", "screen"}

\* the per-kind list a message type is stored in, by endpoint
\* (NoValue: the endpoint has no branch for that type)
RecordList(endpoint, type) ==
    IF endpoint = "stream" /\ type = "video_frame" THEN "video_analysis"
    ELSE IF endpoint = "stream" /\ type = "audio_chunk" THEN "audio_analysis"
    ELSE IF endpoint = "screen" /\ type = "screen_share" THEN "screen_analysis"
    ELSE NoValue

\* analysis records held by a session, and by all sessions
SessionTotal(session) ==
    Len(session.video_analysis) + Len(session.audio_analysis)
        + Len(session.screen_analysis)

RECURSIVE TotalRecords(_)
TotalRecords(d) ==
    IF d = <<>> THEN 0 ELSE SessionTotal(Head(d).val) + TotalRecords(Tail(d))

\* the failed analyses among the records of a session
ErrorCount(session) ==
    LET errs(lst) == Cardinality({i \in 1..Len(lst) : lst[i].error})
    IN  errs(session.video_analysis) + errs(session.audio_analysis)
            + errs(session.screen_analysis)

\* a new session record of LLMConnectionManager.connect
NewLlmSession(analysis_type, now) ==
    [connections |-> <<>>,
     analysis_type |-> analysis_type,
     created_at |-> now,
     video_analysis |-> <<>>,
     audio_analysis |-> <<>>,
     screen_analysis |-> <<>>]

\* an open that starts the session afresh every time
LlmSessionsOpenedAfresh(session_id, analysis_type, now) ==
    Put(llm_sessions, session_id, NewLlmSession(analysis_type, now))

\* llm_sessions after the "if session_id not in self.llm_sessions" step
LlmSessionsOpened(session_id, analysis_type, now) ==
    IF HasKey(llm_sessions, session_id) THEN llm_sessions
    ELSE Put(llm_sessions, session_id, NewLlmSession(analysis_type, now))

\* LLMConnectionManager.connect, at the top of llm_video_stream ("stream")
\* and llm_screen_stream ("screen")
LlmConnect(ws, session_id, endpoint) ==
    LET sessions1 == LlmSessionsOpened(session_id, AnalysisType(endpoint), Now)
        session == Get(sessions1, session_id)
    IN  /\ lws[ws].st = "new"
        /\ lws' = [lws EXCEPT ![ws] =
                      [st |-> "open", session |-> session_id, endpoint |-> endpoint]]
        /\ llm_connections' = Append(llm_connections, ws)
        /\ llm_sessions' = Put(sessions1, session_id,
               [session EXCEPT !.connections = Append(@, ws)])
        /\ out' = <<>>
        /\ last' = Event("llm_connect", ws, session_id, NoValue)
        /\ UNCHANGED <<tasks, sigVars, mediaVars, resp>>

\* analyze_video_frame / analyze_audio_chunk / analyze_screen_share: the
\* record of the seq-th submission to a list; a failed analysis gives a
\* record with an "error" key instead of raising
Analysis(kind, seq, failed) == [type |-> kind, seq |-> seq, error |-> failed]

\* a "Store analysis" step that keeps successful analyses only
StoreAnalysisUnlessFailed(session, kind, failed) ==
    IF failed THEN session
    ELSE IF kind = "video_analysis"
    THEN [session EXCEPT !.video_analysis =
             Append(@, Analysis(kind, Len(@) + 1, failed))]
    ELSE IF kind = "audio_analysis"
    THEN [session EXCEPT !.audio_analysis =
             Append(@, Analysis(kind, Len(@) + 1, failed))]
    ELSE IF kind = "screen_analysis"
    THEN [session EXCEPT !.screen_analysis =
             Append(@, Analysis(kind, Len(@) + 1, failed))]
    ELSE session

\* the session after the "Store analysis" step of the endpoints
StoreAnalysis(session, kind, failed) ==
    IF kind = "video_analysis"
    THEN [session EXCEPT !.video_analysis =
             Append(@, Analysis(kind, Len(@) + 1, failed))]
    ELSE IF kind = "audio_analysis"
    THEN [session EXCEPT !.audio_analysis =
             Append(@, Analysis(kind, Len(@) + 1, failed))]
    ELSE IF kind = "screen_analysis"
    THEN [session EXCEPT !.screen_analysis =
             Append(@, Analysis(kind, Len(@) + 1, failed))]
    ELSE session

\* one inbound message of the given type on an analysis WebSocket: the
\* analysis is made, stored, and sent back to the client
LlmSubmit(ws, type, failed) ==
    LET session_id == lws[ws].session
        kind == RecordList(lws[ws].endpoint, type)
    IN  /\ lws[ws].st = "open"
        /\ llm_sessions' =
               IF kind # NoValue /\ HasKey(llm_sessions, session_id)
               THEN Put(llm_sessions, session_id,
                        StoreAnalysis(Get(llm_sessions, session_id), kind, failed))
               ELSE llm_sessions
        /\ out' = IF kind # NoValue
                  THEN <<[event |-> kind, data |-> "analysis", from |-> NoValue, to |-> {ws}],
                         [event |-> "voice_feedback", data |-> "message",
                          from |-> NoValue, to |-> {ws}]>>
                  ELSE <<>>
        /\ last' = Event("llm_submit", ws, session_id, type)
        /\ UNCHANGED <<tasks, sigVars, mediaVars, llm_connections, lws, resp>>

\* LLMConnectionManager.disconnect without the session on it, and with a
\* session dropped once its connection list is empty
LlmDisconnectSessionsDropEmpty(ws, session_id) ==
    IF HasKey(llm_sessions, session_id)
           /\ InList(Get(llm_sessions, session_id).connections, ws)
    THEN IF Get(llm_sessions, session_id).connections = <<ws>>
         THEN Del(llm_sessions, session_id)
         ELSE Put(llm_sessions, session_id,
                  [Get(llm_sessions, session_id) EXCEPT !.connections = ListRemove(@, ws)])
    ELSE llm_sessions

\* llm_sessions after LLMConnectionManager.disconnect
LlmDisconnectSessions(ws, session_id) ==
    IF HasKey(llm_sessions, session_id)
           /\ InList(Get(llm_sessions, session_id).connections, ws)
    THEN Put(llm_sessions, session_id,
             [Get(llm_sessions, session_id) EXCEPT !.connections = ListRemove(@, ws)])
    ELSE llm_sessions

\* the client closes: receive_text raises WebSocketDisconnect and the
\* endpoint calls llm_manager.disconnect
LlmDisconnect(ws) ==
    LET session_id == lws[ws].session
    IN  /\ lws[ws].st = "open"
        /\ lws' = [lws EXCEPT ![ws].st = "closed"]
        /\ llm_connections' = IF InList(llm_connections, ws)
                              THEN ListRemove(llm_connections, ws)
                              ELSE llm_connections
        /\ llm_sessions' = LlmDisconnectSessions(ws, session_id)
        /\ out' = <<>>
        /\ last' = Event("llm_disconnect", ws, session_id, NoValue)
        /\ UNCHANGED <<tasks, sigVars, mediaVars, resp>>

\* lst[:n], the head of the list
PySliceFirst(lst, n) == SubSeq(lst, 1, IF Len(lst) < n THEN Len(lst) ELSE n)

\* lst[-n:] for n > 0: the start index -n counts from the end and is
\* clipped to the start of the list
PySliceLast(lst, n) ==
    LET start == IF Len(lst) - n < 0 THEN 0 ELSE Len(lst) - n
    IN  SubSeq(lst, start + 1, Len(lst))

\* GET /llm/insights/{session_id} answering an unknown id with empty lists
SessionInsightsOrEmpty(session_id) ==
    IF ~HasKey(llm_sessions, session_id)
    THEN [NoResponse EXCEPT !.status = 200]
    ELSE LET session_data == Get(llm_sessions, session_id)
         IN  [status |-> 200,
              video_analyses |-> PySliceLast(session_data.video_analysis, TailLength),
              audio_analyses |-> PySliceLast(session_data.audio_analysis, TailLength),
              screen_analyses |-> PySliceLast(session_data.screen_analysis, TailLength),
              total_analyses |-> SessionTotal(session_data)]

\* the body of GET /llm/insights/{session_id}
SessionInsights(session_id) ==
    IF ~HasKey(llm_sessions, session_id)
    THEN [NoResponse EXCEPT !.status = 404]
    ELSE LET session_data == Get(llm_sessions, session_id)
         IN  [status |-> 200,
              video_analyses |-> PySliceLast(session_data.video_analysis, TailLength),
              audio_analyses |-> PySliceLast(session_data.audio_analysis, TailLength),
              screen_analyses |-> PySliceLast(session_data.screen_analysis, TailLength),
              total_analyses |-> SessionTotal(session_data)]

\* GET /llm/insights/{session_id}
\* a GET /llm/insights/{session_id} that reads the store the way a
\* defaulting map is read, creating the session it does not find
GetSessionInsightsCreating(session_id) ==
    /\ resp' = SessionInsights(session_id)
    /\ llm_sessions' = IF HasKey(llm_sessions, session_id) THEN llm_sessions
                       ELSE Put(llm_sessions, session_id,
                                NewLlmSession("video_analysis", Now))
    /\ out' = <<>>
    /\ last' = Event("get_session_insights", NoValue, session_id, NoValue)
    /\ UNCHANGED <<tasks, sigVars, mediaVars, llm_connections, lws>>

GetSessionInsights(session_id) ==
    /\ resp' = SessionInsights(session_id)
    /\ out' = <<>>
    /\ last' = Event("get_session_insights", NoValue, session_id, NoValue)
    /\ UNCHANGED <<tasks, sigVars, mediaVars, llmVars>>

\* the submissions the bounds admit
MaySubmit(ws, failed, max) ==
    /\ TotalRecords(llm_sessions) < max
    /\ failed => /\ HasKey(llm_sessions, lws[ws].session)
                 /\ ErrorCount(Get(llm_sessions, lws[ws].session)) < MaxErrors

LlmSockets == {"w1", "w2"}            \* the WebSockets SpecLLM opens

NextLLM ==
    \/ \E ws \in LlmSockets, session_id \in SessionIds, endpoint \in Endpoints :
           LlmConnect(ws, session_id, endpoint)
    \/ \E ws \in LlmSockets, type \in FrameTypes, failed \in BOOLEAN :
           MaySubmit(ws, failed, MaxRecords) /\ LlmSubmit(ws, type, failed)
    \/ \E ws \in LlmSockets : LlmDisconnect(ws)
    \/ \E session_id \in SessionIds : GetSessionInsights(session_id)

SpecLLM == Init /\ [][NextLLM]_vars

\* one session fed by one connection on either endpoint, with long lists
NextTail ==
    \/ \E endpoint \in Endpoints : LlmConnect("w1", "s1", endpoint)
    \/ \E type \in FrameTypes, failed \in BOOLEAN :
           MaySubmit("w1", failed, MaxTailRecords) /\ LlmSubmit("w1", type, failed)
    \/ LlmDisconnect("w1")
    \/ \E session_id \in SessionIds : GetSessionInsights(session_id)

SpecTail == Init /\ [][NextTail]_vars

\* join_room and leave_room events only (with the connects they need)
NextJoinLeave ==
    \/ \E sid \in Sids : Connect(sid)
    \/ \E sid \in Sids, room_id \in RoomIds, user_id \in UserIds :
           JoinRoom(sid, room_id, user_id)
    \/ \E sid \in Sids, room_id \in RoomIds : LeaveRoom(sid, room_id)

SpecJoinLeave == Init /\ [][NextJoinLeave]_vars

\* ------------------------------------------------- malformed messages
\* what can be wrong with an inbound WebSocket message: a type no branch
\* matches, no "type" key, a known type without its "data" key, or text
\* that is not JSON
Defects == {"unknown_type", "missing_type", "missing_data", "bad_json"}

\* the defects that raise in the receive loop (KeyError, JSONDecodeError):
\* the loop catches WebSocketDisconnect only, so the endpoint ends with
\* the exception, the server closes the socket, and disconnect is not called
Raises(defect) == defect # "unknown_type"

\* websocket_endpoint receives a malformed message from ws
MediaMalformed(ws, defect) ==
    /\ mws[ws].st = "open"
    /\ mws' = IF Raises(defect) THEN [mws EXCEPT ![ws].st = "crashed"] ELSE mws
    /\ out' = <<>>
    /\ last' = Event("media_malformed", ws, mws[ws].session, defect)
    /\ UNCHANGED <<tasks, sigVars, llmVars, media_connections, media_sessions, resp>>

\* llm_video_stream / llm_screen_stream receives a malformed message
LlmMalformed(ws, defect) ==
    /\ lws[ws].st = "open"
    /\ lws' = IF Raises(defect) THEN [lws EXCEPT ![ws].st = "crashed"] ELSE lws
    /\ out' = <<>>
    /\ last' = Event("llm_malformed", ws, lws[ws].session, defect)
    /\ UNCHANGED <<tasks, sigVars, mediaVars, llm_connections, llm_sessions, resp>>

\* join_room(sid, data) with data that is not a dict: data.get raises
\* AttributeError, which the handler catches and reports to the sender
JoinRoomBadData(sid) ==
    /\ conn[sid] = "connected"
    /\ out' = <<EmitSid("error", "Failed to join room", NoValue, sid)>>
    /\ last' = Event("join_room_bad_data", sid, NoValue, NoValue)
    /\ UNCHANGED <<tasks, sigVars, mediaVars, llmVars, resp>>

\* one client of each endpoint sending well-formed and malformed messages;
\* a join_room without user_id has data.get('user_id') = None
NextMalformed ==
    \/ \E ws \in LlmSockets : MediaConnect(ws, "s1")
    \/ \E ws \in LlmSockets, type \in FrameTypes : MediaFrame(ws, type)
    \/ \E ws \in LlmSockets, defect \in Defects : MediaMalformed(ws, defect)
    \/ \E ws \in LlmSockets : MediaDisconnect(ws)
    \/ \E endpoint \in Endpoints : LlmConnect("w1", "s1", endpoint)
    \/ \E defect \in Defects : LlmMalformed("w1", defect)
    \/ LlmDisconnect("w1")
    \/ Connect("c1")
    \/ \E user_id \in {"alice", NoValue} : JoinRoom("c1", "r1", user_id)
    \/ JoinRoomBadData("c1")

SpecMalformed == Init /\ [][NextMalformed]_vars

\* ------------------------------------ broadcast_to_session, await by await
\* the for loop of broadcast_to_session reaching index i of the live
\* connections list: past the end the loop is over, otherwise the handler
\* suspends in "await connection.send_text(message)". start is the
\* connections list as it was when the broadcast was called.
NextSend(session_id, conns, i, sent, start) ==
    IF i > Len(conns) THEN Idle
    ELSE [pc |-> "send", session |-> session_id, to |-> conns[i], i |-> i + 1,
          sent |-> sent, start |-> start]

\* websocket_endpoint receives a frame from ws and calls
\* broadcast_to_session, which suspends in its first send
BroadcastBegin(ws) ==
    LET session_id == mws[ws].session
    IN  /\ mws[ws].st = "open"
        /\ tasks[ws] = Idle
        /\ HasKey(media_sessions, session_id)
        /\ MediaConns(session_id) # <<>>
        /\ tasks' = [tasks EXCEPT ![ws] =
               NextSend(session_id, MediaConns(session_id), 1, <<>>,
                        MediaConns(session_id))]
        /\ out' = <<>>
        /\ last' = Event("broadcast_begin", ws, session_id, NoValue)
        /\ UNCHANGED <<sigVars, mediaVars, llmVars, resp>>

\* the send the broadcast of ws is suspended in completes. A successful
\* send goes on to the next element. A send that raises runs
\* "connections.remove(connection)": when the connection is no longer in
\* the list, remove raises ValueError inside the except clause, the
\* exception leaves broadcast_to_session and ends websocket_endpoint of
\* the sender, which has no handler for it.
BroadcastResume(ws) ==
    LET task == tasks[ws]
        conns == MediaConns(task.session)
        ok == MediaSendOk(task.to)
        raised == ~ok /\ ~InList(conns, task.to)
        conns1 == IF ok \/ raised THEN conns ELSE ListRemove(conns, task.to)
        sent1 == IF ok THEN Append(task.sent, task.to) ELSE task.sent
        task1 == IF raised THEN Idle
                 ELSE NextSend(task.session, conns1, task.i, sent1, task.start)
    IN  /\ task.pc = "send"
        /\ tasks' = [tasks EXCEPT ![ws] = task1]
        /\ media_sessions' = Put(media_sessions, task.session,
               [Get(media_sessions, task.session) EXCEPT !.connections = conns1])
        /\ mws' = IF raised THEN [mws EXCEPT ![ws].st = "crashed"] ELSE mws
        /\ out' = IF task1 = Idle /\ ~raised
                  THEN [i \in 1..Len(sent1) |->
                           [event |-> "frame", data |-> "data", from |-> NoValue,
                            to |-> {sent1[i]}]]
                  ELSE <<>>
        /\ last' = Event(IF raised THEN "broadcast_raised"
                         ELSE IF task1 = Idle THEN "broadcast_done"
                         ELSE "broadcast_step", ws, task.session, task.to)
        /\ UNCHANGED <<sigVars, llmVars, media_connections, resp>>

\* the media endpoint with its broadcasts interleaved, at their awaits,
\* with the connects, peer losses and disconnects of the other clients;
\* the endpoint of a connection reads its next message, or its
\* disconnect, only once its own broadcast has returned
NextBroadcast ==
    \/ \E ws \in Sockets : MediaConnect(ws, "s1")
    \/ \E ws \in Sockets : MediaBreak(ws)
    \/ \E ws \in Sockets : tasks[ws] = Idle /\ MediaDisconnect(ws)
    \/ \E ws \in Sockets : BroadcastBegin(ws)
    \/ \E ws \in Sockets : BroadcastResume(ws)

SpecBroadcast == Init /\ [][NextBroadcast]_vars

\* ---------------------------------- signaling handlers, await by await
RestSids == {"c1", "c2"}              \* the Socket.IO clients of SpecRace, SpecRest
\* join_room of a room that has members: participants is set and the
\* handler suspends in "await sio.emit('user-joined', ...)"
JoinBegin(sid, room_id, user_id) ==
    /\ conn[sid] = "connected"
    /\ tasks[sid] = Idle
    /\ Entries(rooms) < MaxEntries
    /\ HasKey(rooms, room_id) /\ Get(rooms, room_id) # <<>>
    /\ participants' = Put(participants, sid, user_id)
    /\ out' = <<EmitRoom("user-joined", user_id, room_id, sid)>>
    /\ tasks' = [tasks EXCEPT ![sid] =
           [pc |-> "join_emit", room |-> room_id, user |-> user_id]]
    /\ last' = Event("join_room_begin", sid, room_id, user_id)
    /\ UNCHANGED <<rooms, sioRooms, conn, mediaVars, llmVars, resp>>

\* join_room after its emit: rooms[room_id].append(sid) raises KeyError
\* when the room was deleted meanwhile; the except clause reports
\* "Failed to join room" to the sender
JoinResume(sid) ==
    LET room_id == tasks[sid].room
        found == HasKey(rooms, room_id)
    IN  /\ tasks[sid].pc = "join_emit"
        /\ rooms' = IF found
                    THEN Put(rooms, room_id, Append(Get(rooms, room_id), sid))
                    ELSE rooms
        /\ sioRooms' = IF found THEN [sioRooms EXCEPT ![room_id] = @ \cup {sid}]
                       ELSE sioRooms
        /\ out' = IF found THEN <<>>
                  ELSE <<EmitSid("error", "Failed to join room", NoValue, sid)>>
        /\ tasks' = [tasks EXCEPT ![sid] = Idle]
        /\ last' = Event(IF found THEN "join_room" ELSE "join_room_failed",
                         sid, room_id, tasks[sid].user)
        /\ UNCHANGED <<participants, conn, mediaVars, llmVars, resp>>

\* leave_room by a member: sid is removed from the list and the handler
\* suspends in "await sio.emit('user-left', ...)"
LeaveBegin(sid, room_id) ==
    LET user_id == GetOr(participants, sid, Unknown)
    IN  /\ conn[sid] = "connected"
        /\ tasks[sid] = Idle
        /\ HasKey(rooms, room_id) /\ InList(Get(rooms, room_id), sid)
        /\ rooms' = Put(rooms, room_id, ListRemove(Get(rooms, room_id), sid))
        /\ out' = <<EmitRoom("user-left", user_id, room_id, sid)>>
        /\ tasks' = [tasks EXCEPT ![sid] =
               [pc |-> "leave_emit", room |-> room_id, user |-> user_id]]
        /\ last' = Event("leave_room_begin", sid, room_id, user_id)
        /\ UNCHANGED <<participants, sioRooms, conn, mediaVars, llmVars, resp>>

\* leave_room after its emit: "if not rooms[room_id]" raises KeyError when
\* the room was deleted meanwhile, and the except clause only logs, so
\* sio.leave_room and the participants cleanup are skipped
LeaveResume(sid) ==
    LET room_id == tasks[sid].room
        found == HasKey(rooms, room_id)
    IN  /\ tasks[sid].pc = "leave_emit"
        /\ rooms' = IF found /\ Get(rooms, room_id) = <<>>
                    THEN Del(rooms, room_id) ELSE rooms
        /\ sioRooms' = IF found THEN [sioRooms EXCEPT ![room_id] = @ \ {sid}]
                       ELSE sioRooms
        /\ participants' = IF found THEN Del(participants, sid) ELSE participants
        /\ out' = <<>>
        /\ tasks' = [tasks EXCEPT ![sid] = Idle]
        /\ last' = Event(IF found THEN "leave_room" ELSE "leave_room_failed",
                         sid, room_id, tasks[sid].user)
        /\ UNCHANGED <<conn, mediaVars, llmVars, resp>>

\* disconnect of a connection that is in a room: sid is removed from the
\* first list that holds it and the handler suspends in
\* "await sio.emit('user-left', ...)"
DisconnectBegin(sid) ==
    LET i == FirstRoomOf(sid)
    IN  /\ conn[sid] = "connected"
        /\ tasks[sid] = Idle
        /\ i # 0
        /\ rooms' = DisconnectRooms(sid)
        /\ out' = <<EmitRoom("user-left", GetOr(participants, sid, Unknown),
                             rooms[i].key, sid)>>
        /\ conn' = [conn EXCEPT ![sid] = "closing"]
        /\ tasks' = [tasks EXCEPT ![sid] =
               [pc |-> "disconnect_emit", room |-> rooms[i].key,
                user |-> GetOr(participants, sid, Unknown)]]
        /\ last' = Event("disconnect_begin", sid, rooms[i].key,
                         GetOr(participants, sid, Unknown))
        /\ UNCHANGED <<participants, sioRooms, mediaVars, llmVars, resp>>

\* disconnect after its emit: the participants cleanup, then the server
\* drops sid from every Socket.IO room
DisconnectResume(sid) ==
    /\ tasks[sid].pc = "disconnect_emit"
    /\ participants' = Del(participants, sid)
    /\ sioRooms' = [r \in RoomIds |-> sioRooms[r] \ {sid}]
    /\ conn' = [conn EXCEPT ![sid] = "closed"]
    /\ out' = <<>>
    /\ tasks' = [tasks EXCEPT ![sid] = Idle]
    /\ last' = Event("disconnect", sid, tasks[sid].room, tasks[sid].user)
    /\ UNCHANGED <<rooms, mediaVars, llmVars, resp>>

\* the signaling handlers of two clients interleaved at their emits; a
\* handler that meets no emit runs in one step
NextRace ==
    \/ \E sid \in RestSids : Connect(sid)
    \/ \E sid \in RestSids, room_id \in RoomIds, user_id \in UserIds :
           /\ tasks[sid] = Idle
           /\ GetOr(rooms, room_id, <<>>) = <<>>
           /\ JoinRoom(sid, room_id, user_id)
    \/ \E sid \in RestSids, room_id \in RoomIds, user_id \in UserIds :
           JoinBegin(sid, room_id, user_id)
    \/ \E sid \in RestSids : JoinResume(sid)
    \/ \E sid \in RestSids, room_id \in RoomIds :
           /\ tasks[sid] = Idle
           /\ ~(HasKey(rooms, room_id) /\ InList(Get(rooms, room_id), sid))
           /\ LeaveRoom(sid, room_id)
    \/ \E sid \in RestSids, room_id \in RoomIds : LeaveBegin(sid, room_id)
    \/ \E sid \in RestSids : LeaveResume(sid)
    \/ \E sid \in RestSids :
           tasks[sid] = Idle /\ FirstRoomOf(sid) = 0 /\ Disconnect(sid)
    \/ \E sid \in RestSids : DisconnectBegin(sid)
    \/ \E sid \in RestSids : DisconnectResume(sid)
    \/ \E sid \in RestSids, target \in UserIds :
           tasks[sid] = Idle /\ Signal(sid, "offer", target, "P")

SpecRace == Init /\ [][NextRace]_vars

\* ------------------------------------------------------ REST requests

\* the REST endpoints over rooms and analysis sessions, with the events
\* that fill the two registries (every client joins under its own name)
NextRest ==
    \/ \E sid \in RestSids : Connect(sid)
    \/ \E sid \in RestSids, room_id \in RoomIds : JoinRoom(sid, room_id, sid)
    \/ \E sid \in RestSids, room_id \in RoomIds : LeaveRoom(sid, room_id)
    \/ \E room_id \in RoomIds : GetRoomInfo(room_id)
    \/ \E room_id \in RoomIds : DeleteRoom(room_id)
    \/ LlmConnect("w1", "s1", "stream")
    \/ \E session_id \in SessionIds : GetSessionInsights(session_id)

SpecRest == Init /\ [][NextRest]_vars

\* GET /rooms
GetRoomsRequest ==
    /\ resp' = [status |-> 200, rooms |-> GetRooms]
    /\ out' = <<>>
    /\ last' = Event("get_rooms", NoValue, NoValue, NoValue)
    /\ UNCHANGED <<tasks, sigVars, mediaVars, llmVars>>

\* GET /llm/sessions
ListLlmSessions ==
    /\ resp' = [status |-> 200,
                sessions |-> [i \in 1..Len(llm_sessions) |->
                    [session_id |-> llm_sessions[i].key,
                     analysis_type |-> llm_sessions[i].val.analysis_type,
                     created_at |-> llm_sessions[i].val.created_at,
                     active_connections |-> Len(llm_sessions[i].val.connections),
                     total_analyses |-> SessionTotal(llm_sessions[i].val)]],
                total_sessions |-> Len(llm_sessions)]
    /\ out' = <<>>
    /\ last' = Event("list_llm_sessions", NoValue, NoValue, NoValue)
    /\ UNCHANGED <<tasks, sigVars, mediaVars, llmVars>>

\* the read endpoints over rooms with members and a session with records
NextRead ==
    \/ \E sid \in RestSids : Connect(sid)
    \/ \E sid \in RestSids : JoinRoom(sid, "r1", sid)
    \/ \E sid \in RestSids : LeaveRoom(sid, "r1")
    \/ LlmConnect("w1", "s1", "stream")
    \/ \E failed \in BOOLEAN :
           /\ MaySubmit("w1", failed, MaxRecords)
           /\ LlmSubmit("w1", "video_frame", failed)
    \/ GetRoomsRequest
    \/ \E room_id \in RoomIds : GetRoomInfo(room_id)
    \/ \E session_id \in SessionIds : GetSessionInsights(session_id)
    \/ ListLlmSessions

SpecRead == Init /\ [][NextRead]_vars

\* the opens of one analysis session and one media session, with the
\* submissions that give the analysis session records
NextOpen ==
    \/ \E ws \in LlmSockets, endpoint \in Endpoints : LlmConnect(ws, "s1", endpoint)
    \/ \E ws \in LlmSockets, type \in FrameTypes, failed \in BOOLEAN :
           MaySubmit(ws, failed, MaxRecords) /\ LlmSubmit(ws, type, failed)
    \/ \E ws \in LlmSockets : MediaConnect(ws, "s1")
    \/ \E stream_type \in StreamTypes : StartMediaStream("s1", stream_type)

SpecOpen == Init /\ [][NextOpen]_vars

\* ------------------------------------------------- reading the registry
Registered(r) == HasKey(rooms, r)

MembersOf(r) == IF HasKey(rooms, r) THEN Get(rooms, r) ELSE <<>>

IsMember(c, r) == InList(MembersOf(r), c)

UserOf(c) == GetOr(participants, c, Unknown)

\* the members of r holding logical user id u
Holders(r, u) == {c \in Sids : IsMember(c, r) /\ UserOf(c) = u}

\* the earliest joiner of r, in member-list order, holding u
EarliestHolder(r, u) ==
    MembersOf(r)[CHOOSE i \in 1..Len(MembersOf(r)) :
        /\ UserOf(MembersOf(r)[i]) = u
        /\ \A h \in 1..(i - 1) : UserOf(MembersOf(r)[h]) # u]

\* copies of an emit with this event and data that reached c
Got(c, event, data) ==
    Cardinality({i \in 1..Len(out) :
        out[i].event = event /\ out[i].data = data /\ c \in out[i].to})

\* ================================================================ claims

\* C1: after any sequence of join_room and leave_room events a room id is
\* registered if and only if its member list is non-empty.
C1_RoomIffNonEmpty ==
    \A r \in RoomIds : Registered(r) <=> MembersOf(r) # <<>>

\* C1 witness: a leave_room emptied its room, which is gone, while
\* another room with a member is still registered.
C1_Witness ==
    /\ last.op = "leave_room"
    /\ Len(out) = 1
    /\ ~Registered(last.room)
    /\ \E r \in RoomIds : Registered(r) /\ MembersOf(r) # <<>>

\* C2: an offer / answer / ice_candidate naming a logical user id held by
\* another member of the sender's room reaches exactly one such member,
\* once, with the payload and from_user_id = the sender's logical id, and
\* reaches no other connection (the sender included).
C2_SignalReachesRoomTarget ==
    \A r \in RoomIds :
        (/\ last.op \in Kinds
         /\ IsMember(last.sid, r)
         /\ Holders(r, last.user) \ {last.sid} # {})
        => \E t \in Holders(r, last.user) \ {last.sid} :
               /\ Len(out) = 1
               /\ out[1].event = last.op
               /\ out[1].data \in Payloads
               /\ out[1].from = UserOf(last.sid)
               /\ out[1].to = {t}

\* C3: an offer / answer / ice_candidate naming a logical user id that no
\* member of the sender's room holds gives the sender one error envelope
\* and nobody else anything, keeps the sender connected, and changes no
\* registry state.
C3_AbsentTargetIsError ==
    [][\A r \in RoomIds :
        (/\ last'.op \in Kinds
         /\ IsMember(last'.sid, r)
         /\ Holders(r, last'.user) = {})
        => /\ Len(out') = 1
           /\ out'[1].event = "error"
           /\ out'[1].to = {last'.sid}
           /\ conn'[last'.sid] = "connected"
           /\ rooms' = rooms /\ participants' = participants]_vars

\* C4: after a broadcast to a session of N members in which exactly one
\* member's send fails, whatever its position in join order, exactly N-1
\* members have received the message (each of the others once) and the
\* failed member is no longer in the member list.
C4_OneFailureOthersReceive ==
    [][\A s \in SessionIds, f \in Sockets :
        (/\ last'.op = "broadcast" /\ last'.room = s
         /\ HasKey(media_sessions, s)
         /\ {w \in Sockets : InList(MediaConns(s), w) /\ ~MediaSendOk(w)} = {f})
        => /\ Len(out') = Len(MediaConns(s)) - 1
           /\ \A w \in Sockets \ {f} :
                  InList(MediaConns(s), w) => ReceivedCount(w)' = 1
           /\ ~InList(MediaConns(s)', f)]_vars

\* C5: when a connection joins a room that already has members, every
\* existing member gets exactly one user-joined event carrying the
\* joiner's logical user id, the joiner gets none, and the member count
\* grows by exactly one.
C5_JoinNotifiesMembers ==
    [][\A sid \in Sids, r \in RoomIds, u \in UserIds :
        (last' = Event("join_room", sid, r, u) /\ MembersOf(r) # <<>>)
        => /\ \A m \in Sids \ {sid} :
                  IsMember(m, r) => Got(m, "user-joined", u)' = 1
           /\ ~ReceivedAny(sid)'
           /\ Len(MembersOf(r)') = Len(MembersOf(r)) + 1]_vars

\* C6: when a member of a room that has other members disconnects, every
\* remaining member of that room gets a user-left event carrying the
\* departed connection's logical user id, and that room's member count
\* drops by exactly one.
C6_DisconnectNotifiesMembers ==
    [][\A sid \in Sids, r \in RoomIds, u \in UserIds :
        (/\ last'.op = "disconnect" /\ last'.sid = sid
         /\ IsMember(sid, r) /\ UserOf(sid) = u
         /\ \E m \in Sids \ {sid} : IsMember(m, r))
        => /\ \A m \in Sids \ {sid} :
                  IsMember(m, r) => Got(m, "user-left", u)' >= 1
           /\ Len(MembersOf(r)') = Len(MembersOf(r)) - 1]_vars

\* C7: when the only remaining member of a room disconnects, the room is
\* deleted: GET /rooms does not list it and GET /rooms/{room_id} is 404.
C7_LastDisconnectDeletesRoom ==
    [][\A sid \in Sids, r \in RoomIds :
        (last'.op = "disconnect" /\ last'.sid = sid /\ MembersOf(r) = <<sid>>)
        => /\ \A i \in 1..Len(GetRooms') : GetRooms'[i].room_id # r
           /\ GetRoomInfoStatus(r)' = 404]_vars

\* C8: when several connections join the same room with the same logical
\* user id none of them is evicted (a join leaves the member list it found
\* with the joiner appended), and the signaling lookup of that id resolves
\* to the earliest joiner of the room among the connections holding it.
C8_DuplicatesEarliestJoiner ==
    [][/\ \A sid \in Sids, r \in RoomIds :
              (last'.op = "join_room" /\ last'.sid = sid /\ last'.room = r)
              => MembersOf(r)' = Append(MembersOf(r), sid)
       /\ \A r \in RoomIds, u \in UserIds :
              Cardinality(Holders(r, u)') >= 2
              => TargetSid(u)' = EarliestHolder(r, u)']_vars

\* the records of a session, per kind
Records(s) ==
    LET d == Get(llm_sessions, s)
    IN  <<d.video_analysis, d.audio_analysis, d.screen_analysis>>

\* the last min(k, TailLength) of the k records of a list, in list order
LastRecords(lst) ==
    LET k == Len(lst)
        m == IF k < TailLength THEN k ELSE TailLength
    IN  [i \in 1..m |-> lst[k - m + i]]

\* the elements of a tail are consecutive submissions ending with the k-th
InSubmissionOrder(tail, k) ==
    \A i \in 1..Len(tail) : tail[i].seq = k - Len(tail) + i

\* C9: for a session holding k records of a kind, the insight read returns
\* the last min(k, 10) of them in submission order, and the stored lists
\* are unchanged by the read.
C9_TailReadLastTen ==
    [][\A s \in SessionIds :
        (/\ last'.op = "get_session_insights" /\ last'.room = s
         /\ HasKey(llm_sessions, s))
        => /\ resp'.status = 200
           /\ resp'.video_analyses = LastRecords(Records(s)[1])
           /\ resp'.audio_analyses = LastRecords(Records(s)[2])
           /\ resp'.screen_analyses = LastRecords(Records(s)[3])
           /\ InSubmissionOrder(resp'.video_analyses, Len(Records(s)[1]))
           /\ InSubmissionOrder(resp'.audio_analyses, Len(Records(s)[2]))
           /\ InSubmissionOrder(resp'.screen_analyses, Len(Records(s)[3]))
           /\ llm_sessions' = llm_sessions]_vars

\* C9 witness: 12 video records are stored and the read returned the last
\* 10 of them, the 3rd to the 12th.
C9_Witness ==
    /\ last.op = "get_session_insights" /\ last.room = "s1"
    /\ HasKey(llm_sessions, "s1")
    /\ Len(Records("s1")[1]) = 12
    /\ Len(resp.video_analyses) = 10
    /\ resp.video_analyses[1].seq = 3
    /\ resp.video_analyses[10].seq = 12

\* C10: an analysis session, once created, stays in the session registry;
\* the disconnect of a client leaves its records as they were, and with
\* no connection left the session is still served by the insight read
\* with all its records counted.
C10_SessionOutlivesConnections ==
    [][\A s \in SessionIds :
        HasKey(llm_sessions, s)
        => /\ HasKey(llm_sessions', s)
           /\ (last'.op = "llm_disconnect" /\ last'.room = s)
              => /\ Records(s)' = Records(s)
                 /\ SessionInsights(s)'.status = 200
                 /\ SessionInsights(s)'.total_analyses
                        = SessionTotal(Get(llm_sessions, s))]_vars

\* C10 witness: the last client of a session with records has
\* disconnected; the session has no connection and is still registered.
C10_Witness ==
    /\ last.op = "llm_disconnect"
    /\ HasKey(llm_sessions, last.room)
    /\ Get(llm_sessions, last.room).connections = <<>>
    /\ SessionTotal(Get(llm_sessions, last.room)) > 0
    /\ SessionInsights(last.room).status = 200

\* C11: opening a session id that already exists leaves the session record
\* as it was (per-kind record lists, created-at timestamp, type tag),
\* whatever type tag the repeated open passes and whenever it comes; only the
\* connection list gains the new connection (POST /stream/start, which
\* opens no connection, changes nothing at all).
C11_ReopenKeepsRecord ==
    [][\A s \in SessionIds, ws \in Sockets :
        /\ (last' = Event("llm_connect", ws, s, NoValue) /\ HasKey(llm_sessions, s))
           => llm_sessions' = Put(llm_sessions, s,
                  [Get(llm_sessions, s) EXCEPT !.connections = Append(@, ws)])
        /\ (last' = Event("media_connect", ws, s, NoValue) /\ HasKey(media_sessions, s))
           => media_sessions' = Put(media_sessions, s,
                  [Get(media_sessions, s) EXCEPT !.connections = Append(@, ws)])
        /\ (last' = Event("start_media_stream", NoValue, s, NoValue)
               /\ HasKey(media_sessions, s))
           => media_sessions' = media_sessions]_vars

\* C11 witness: a second connection opened, through the screen endpoint,
\* an analysis session created by the stream endpoint that held records.
C11_Witness ==
    /\ last.op = "llm_connect"
    /\ HasKey(llm_sessions, last.room)
    /\ Len(Get(llm_sessions, last.room).connections) = 2
    /\ SessionTotal(Get(llm_sessions, last.room)) > 0
    /\ Get(llm_sessions, last.room).analysis_type = "video_analysis"
    /\ AnalysisType(lws[last.sid].endpoint) = "screen_analysis"

\* the per-kind list that matches a message type
MatchingKind(type) ==
    IF type = "video_frame" THEN "video_analysis"
    ELSE IF type = "audio_chunk" THEN "audio_analysis"
    ELSE "screen_analysis"

\* the list of a kind in a session record
ListOf(session, kind) ==
    IF kind = "video_analysis" THEN session.video_analysis
    ELSE IF kind = "audio_analysis" THEN session.audio_analysis
    ELSE session.screen_analysis

\* a submission of this type on ws appended one record, with the error
\* marker of a failed analysis, to the matching list and touched no other
SubmissionAppendsOne(ws, type, failed) ==
    LET s == lws[ws].session
        kind == MatchingKind(type)
    IN  /\ HasKey(llm_sessions', s)
        /\ ListOf(Get(llm_sessions, s), kind)' =
               Append(ListOf(Get(llm_sessions, s), kind),
                      Analysis(kind, Len(ListOf(Get(llm_sessions, s), kind)) + 1, failed))
        /\ \A k \in {"video_analysis", "audio_analysis", "screen_analysis"} \ {kind} :
               ListOf(Get(llm_sessions, s), k)' = ListOf(Get(llm_sessions, s), k)

\* C12 as stated: every video_frame, audio_chunk or screen_share submitted
\* on an analysis stream appends exactly one record to the session's list
\* of the matching kind, failed analysis or not.
C12_EverySubmissionAppendsOne ==
    [][\A ws \in LlmSockets, type \in FrameTypes, failed \in BOOLEAN :
        (last'.op = "llm_submit" /\ last'.sid = ws /\ LlmSubmit(ws, type, failed)) => SubmissionAppendsOne(ws, type, failed)]_vars

\* C12 amended: a video_frame or audio_chunk submitted on /llm/stream, or
\* a screen_share submitted on /llm/screen, appends exactly one record to
\* the session's list of the matching kind, failed analysis or not (a
\* failure gives a record with the error marker); a type the endpoint has
\* no branch for appends nothing.
C12_HandledSubmissionAppendsOne ==
    [][\A ws \in LlmSockets, type \in FrameTypes, failed \in BOOLEAN :
        (last'.op = "llm_submit" /\ last'.sid = ws /\ LlmSubmit(ws, type, failed))
        => IF RecordList(lws[ws].endpoint, type) # NoValue
           THEN SubmissionAppendsOne(ws, type, failed)
           ELSE llm_sessions' = llm_sessions]_vars

\* C12 witness: the second video_frame of a session was submitted and its
\* analysis failed; the video list holds two records, the last with the
\* error marker.
C12_Witness ==
    /\ last.op = "llm_submit" /\ last.user = "video_frame"
    /\ HasKey(llm_sessions, last.room)
    /\ Len(Get(llm_sessions, last.room).video_analysis) = 2
    /\ Get(llm_sessions, last.room).video_analysis[2].error

\* C13: an offer, answer or ice_candidate sent by a member of a room is
\* never delivered to a connection that is not a member of a room of the
\* sender, even when a connection in another room holds the target id.
C13_SignalStaysInRoom ==
    (last.op \in Kinds /\ \E r \in RoomIds : IsMember(last.sid, r))
    => \A c \in Sids :
           (\E i \in 1..Len(out) : out[i].event = last.op /\ c \in out[i].to)
           => \E r \in RoomIds : IsMember(last.sid, r) /\ IsMember(c, r)

\* the entries of connection c over all member lists
Registrations(c) ==
    {<<i, j>> \in (1..Len(rooms)) \X (1..MaxEntries) :
        j <= Len(rooms[i].val) /\ rooms[i].val[j] = c}

\* C14: a connection is registered at most once: in every reachable state
\* each connection appears in at most one room's member list and at most
\* once in it (a second join_room adds no further entry).
C14_RegisteredAtMostOnce ==
    \A c \in Sids : Cardinality(Registrations(c)) <= 1

\* C15: deregistering a connection that is already absent from the room or
\* session (or whose room or session does not exist) is a no-op and not an
\* error: nothing is raised or reported and every member list is left as
\* it was; so once a connection has been deregistered, deregistering it
\* again changes nothing (twice has the same effect as once).
C15_DeregisterIdempotent ==
    [][/\ \A sid \in Sids, r \in RoomIds :
              (last'.op = "leave_room" /\ last'.sid = sid /\ last'.room = r)
              => /\ ~IsMember(sid, r) => (rooms' = rooms /\ out' = <<>>)
                 /\ LeaveRooms(sid, r)' = rooms'
       /\ \A ws \in Sockets, s \in SessionIds :
              (last' = Event("media_disconnect", ws, s, NoValue))
              => /\ (HasKey(media_sessions, s) /\ ~InList(MediaConns(s), ws))
                    => media_sessions' = media_sessions
                 /\ MediaDisconnectSessions(ws, s)' = media_sessions'
       /\ \A ws \in Sockets, s \in SessionIds :
              (last' = Event("llm_disconnect", ws, s, NoValue))
              => LlmDisconnectSessions(ws, s)' = llm_sessions']_vars

\* C16: a video_frame, audio_chunk or screen_share received from a
\* connection is broadcast to the other connections of its session: with
\* every send succeeding, every other member receives it and it is not
\* sent back to the connection that submitted it.
C16_BroadcastSkipsSender ==
    [][\A ws \in Sockets, s \in SessionIds :
        (/\ last' = Event("broadcast", ws, s, NoValue)
         /\ HasKey(media_sessions, s)
         /\ \A w \in Sockets : InList(MediaConns(s), w) => MediaSendOk(w))
        => /\ \A w \in Sockets \ {ws} :
                  InList(MediaConns(s), w) => ReceivedCount(w)' = 1
           /\ ReceivedCount(ws)' = 0]_vars

\* the last handler sent an error envelope to c
GotError(c) == \E i \in 1..Len(out) : out[i].event = "error" /\ out[i].to = {c}

\* C17: an inbound message with an unknown type discriminator or a missing
\* required field is dropped: an error envelope goes back to the
\* originator, the connection is not closed (its inbound loop keeps
\* running and it stays registered), and no membership or record state
\* changes.
C17_MalformedDropped ==
    [][/\ \A ws \in Sockets :
              (last'.op = "media_malformed" /\ last'.sid = ws)
              => /\ GotError(ws)'
                 /\ mws'[ws].st = "open"
                 /\ media_sessions' = media_sessions
                 /\ media_connections' = media_connections
       /\ \A ws \in Sockets :
              (last'.op = "llm_malformed" /\ last'.sid = ws)
              => /\ GotError(ws)'
                 /\ lws'[ws].st = "open"
                 /\ llm_sessions' = llm_sessions
                 /\ llm_connections' = llm_connections
       /\ \A sid \in Sids :
              (/\ last'.op \in {"join_room", "join_room_bad_data"}
               /\ last'.sid = sid /\ last'.user = NoValue)
              => /\ GotError(sid)'
                 /\ conn'[sid] = "connected"
                 /\ rooms' = rooms /\ participants' = participants]_vars

\* C18: deleting an existing room through DELETE /rooms/{room_id} notifies
\* every current member that the room was deleted, forces all of them out
\* (membership and per-connection metadata removed), and leaves the room
\* absent from the registry.
C18_DeleteRoomEvictsAll ==
    [][\A r \in RoomIds :
        (last' = Event("delete_room", NoValue, r, NoValue) /\ Registered(r))
        => /\ \A m \in Sids : IsMember(m, r) =>
                  /\ \E i \in 1..Len(out') :
                         out'[i].event = "room-deleted" /\ m \in out'[i].to
                  /\ ~HasKey(participants', m)
                  /\ m \notin sioRooms'[r]
           /\ ~Registered(r)']_vars

\* C19: a read or delete request naming a room or session id that is
\* absent from the registry yields not-found (404) and changes no
\* registry state.
C19_AbsentIdNotFound ==
    [][/\ \A r \in RoomIds :
              (last'.op \in {"get_room_info", "delete_room"} /\ last'.room = r
                   /\ ~Registered(r))
              => /\ resp'.status = 404
                 /\ rooms' = rooms /\ participants' = participants
                 /\ sioRooms' = sioRooms
       /\ \A s \in SessionIds :
              (last'.op = "get_session_insights" /\ last'.room = s
                   /\ ~HasKey(llm_sessions, s))
              => /\ resp'.status = 404
                 /\ llm_sessions' = llm_sessions
                 /\ llm_connections' = llm_connections]_vars

\* C19 witness: a delete request named an absent room while another room
\* and an analysis session were registered, and was answered 404.
C19_Witness ==
    /\ last.op = "delete_room"
    /\ ~Registered(last.room)
    /\ resp.status = 404
    /\ rooms # <<>>
    /\ llm_sessions # <<>>

\* the sequence the insight read returned for a kind
Returned(kind) ==
    IF kind = "video_analysis" THEN resp.video_analyses
    ELSE IF kind = "audio_analysis" THEN resp.audio_analyses
    ELSE resp.screen_analyses

AnalysisKinds == {"video_analysis", "audio_analysis", "screen_analysis"}

\* C20 as stated: a tail read for a session id that is unknown, or for a
\* kind the session has nothing of, returns an empty sequence rather than
\* an error.
C20_UnknownReadsEmpty ==
    [][\A s \in SessionIds, k \in AnalysisKinds :
        (/\ last' = Event("get_session_insights", NoValue, s, NoValue)
         /\ \/ ~HasKey(llm_sessions, s)
            \/ ListOf(Get(llm_sessions, s), k) = <<>>)
        => resp'.status = 200 /\ Returned(k)' = <<>>]_vars

\* C20 amended: a tail read for a known session returns, for a kind the
\* session has no records of, an empty sequence rather than an error; a
\* tail read for an unknown session id is answered not-found (404).
C20_KnownReadsEmptyUnknownNotFound ==
    [][\A s \in SessionIds, k \in AnalysisKinds :
        (last' = Event("get_session_insights", NoValue, s, NoValue))
        => IF HasKey(llm_sessions, s)
           THEN ListOf(Get(llm_sessions, s), k) = <<>>
                => resp'.status = 200 /\ Returned(k)' = <<>>
           ELSE resp'.status = 404]_vars

\* C20 witness: a read of a session that has video records and no audio
\* record returned status 200 with an empty audio sequence.
C20_Witness ==
    /\ last.op = "get_session_insights"
    /\ HasKey(llm_sessions, last.room)
    /\ Get(llm_sessions, last.room).video_analysis # <<>>
    /\ Get(llm_sessions, last.room).audio_analysis = <<>>
    /\ resp.status = 200
    /\ resp.video_analyses # <<>>
    /\ resp.audio_analyses = <<>>

\* ws is in no connection list of the sessions of d
InNoSession(d, ws) == \A i \in 1..Len(d) : ~InList(d[i].val.connections, ws)

\* C21: whenever the inbound loop of a connection has ended, because the
\* peer closed the stream or because of a transport or processing error,
\* the connection is deregistered: it is in no session's connection list
\* and not in the manager's active-connection list.
C21_EndedLoopDeregistered ==
    \A ws \in Sockets :
        /\ mws[ws].st \in {"closed", "crashed"}
           => ~InList(media_connections, ws) /\ InNoSession(media_sessions, ws)
        /\ lws[ws].st \in {"closed", "crashed"}
           => ~InList(llm_connections, ws) /\ InNoSession(llm_sessions, ws)

\* C22: a delivery failure to a recipient during a broadcast never
\* propagates to the sender, under every interleaving (the failing
\* recipient's own disconnect handler running while the send to it is
\* pending included): the broadcast goes on or returns normally, the
\* sender's inbound loop is not ended and the sender stays registered.
C22_FailureNotPropagated ==
    [][\A ws \in Sockets, s \in SessionIds :
        (/\ tasks[ws].pc = "send" /\ tasks'[ws] # tasks[ws]
         /\ tasks[ws].session = s
         /\ tasks[ws].to # ws /\ ~MediaSendOk(tasks[ws].to))
        => /\ last'.op \in {"broadcast_step", "broadcast_done"}
           /\ mws'[ws].st = mws[ws].st
           /\ InList(MediaConns(s)', ws) = InList(MediaConns(s), ws)]_vars

\* C25: a broadcast works on the membership snapshot taken at call time:
\* whatever joins, leaves or disconnects happen while it is suspended in
\* a send, every connection that is a member for the whole duration of
\* the broadcast (with a live peer) receives the message exactly once.
C25_WholeDurationMembersReceiveOnce ==
    [][\A ws \in Sockets, s \in SessionIds :
        (/\ tasks[ws].pc = "send" /\ tasks[ws].session = s
         /\ last'.op = "broadcast_done" /\ last'.sid = ws)
        => \A w \in Sockets :
               (/\ InList(tasks[ws].start, w)
                /\ InList(MediaConns(s)', w)
                /\ \A v \in Sockets :
                       InList(tasks[ws].start, v) => mws'[v].st \in {"open", "closed"})
               => ReceivedCount(w)' = 1]_vars

\* C26: for a broadcast in which any subset F of the members fails
\* delivery (members adjacent in join order included), after the broadcast
\* returns the member list is the prior one minus F: every failing
\* recipient has been deregistered and no other has been removed.
C26_FailedSubsetRemoved ==
    [][\A ws \in Sockets, s \in SessionIds :
        (last' = Event("broadcast", ws, s, NoValue) /\ HasKey(media_sessions, s))
        => MediaConns(s)' = SelectSeq(MediaConns(s), MediaSendOk)]_vars

\* the last handler was a signaling handler whose lookup resolved to c or
\* which forwarded its message to c
RoutedTo(c) ==
    /\ last.op \in Kinds
    /\ \/ TargetSid(last.user) = c
       \/ \E i \in 1..Len(out) : out[i].event = last.op /\ c \in out[i].to

\* C23: deregistration happens-before routing: under every interleaving
\* of a disconnect or leave_room handler with offer / answer /
\* ice_candidate handlers, once the handler has removed the connection
\* from its room's member list no signaling lookup resolves to it and no
\* message is forwarded to it.
C23_NoRoutingAfterRemoval ==
    \A c \in Sids :
        (/\ tasks[c].pc \in {"leave_emit", "disconnect_emit"}
         /\ \A r \in RoomIds : ~IsMember(c, r))
        => ~RoutedTo(c)

\* C24: no membership update is lost when join_room and leave_room
\* handlers race on one room (in particular a join suspended in its
\* notification while the last member leaves and the room is deleted):
\* a join that has finished completed without error and its connection is
\* in the room's member list.
C24_NoLostJoin ==
    \A c \in Sids :
        (last.op \in {"join_room", "join_room_failed"} /\ last.sid = c)
        => /\ last.op = "join_room"
           /\ IsMember(c, last.room)
           /\ \A i \in 1..Len(out) : out[i].event # "error"

\* C27: a room re-created under an id that was previously deleted is a
\* fresh room: after the first join following deletion its member list
\* contains exactly the new joiner, and no connection of the earlier
\* incarnation is a member or receives the new room's events (the
\* Socket.IO room that carries them holds the joiner alone), every handler
\* of the earlier incarnation having finished.
C27_RecreatedRoomIsFresh ==
    [][\A c \in Sids, r \in RoomIds :
        (/\ ~HasKey(rooms, r)
         /\ \A x \in Sids : tasks[x] = Idle
         /\ last' = Event("join_room", c, r, last'.user))
        => (MembersOf(r)' = <<c>> /\ sioRooms'[r] = {c})]_vars

\* C28: operations on one room id are independent of all others: a join,
\* leave or disconnect on room r leaves the member list and the members'
\* logical-user-id metadata of every other room unchanged.
C28_OtherRoomsUnchanged ==
    [][\A r \in RoomIds :
        (last'.op \in {"join_room", "leave_room", "disconnect"} /\ last'.room = r)
        => \A r2 \in RoomIds \ {r} :
               /\ MembersOf(r2)' = MembersOf(r2)
               /\ \A c \in Sids : IsMember(c, r2) => UserOf(c)' = UserOf(c)]_vars

ReadOps == {"get_rooms", "get_room_info", "get_session_insights",
            "list_llm_sessions"}

\* C29: the read projections (session summary, insight tail, session
\* list, room list, room info) have no side effects: they leave every
\* session's records, type tag and connections and every room's member
\* list unchanged, and they never create a session or room that was
\* absent.
C29_ReadsChangeNothing ==
    [][last'.op \in ReadOps
       => UNCHANGED <<rooms, participants, sioRooms, llm_sessions,
                      llm_connections, media_sessions, media_connections>>]_vars

\* a read of an absent session, answered 404, beside a session with
\* records and a room with members
C29_Witness ==
    /\ last.op = "get_session_insights"
    /\ ~HasKey(llm_sessions, last.room)
    /\ resp.status = 404
    /\ TotalRecords(llm_sessions) > 0
    /\ \E r \in RoomIds : MembersOf(r) # <<>>

\* C30: the two signaling maps stay consistent: in every state where no
\* handler is mid-execution, a connection has a logical-user-id entry in
\* the participants map if and only if it appears in some room's member
\* list, after any sequence of join_room, leave_room (including
\* leave_room naming a room the connection is not in) and disconnect.
C30_ParticipantsIffMember ==
    (\A x \in Sids : tasks[x] = Idle)
    => \A c \in Sids :
           HasKey(participants, c) <=> \E r \in RoomIds : IsMember(c, r)

====
